---- MODULE Spec2Model ----
(***************************************************************************)
(* A state-machine model of the project-tracking assistant                 *)
(* (agent_projet.py, class AgentChefProjet).                               *)
(*                                                                         *)
(* Two execution contexts share the worksheet: the main (chat) thread and  *)
(* the monitoring thread started by start_monitoring.  Remote services     *)
(* (the worksheet, the completion agents, the local files) may fail: every *)
(* remote call of the code is modelled with both outcomes.                 *)
(*                                                                         *)
(* Cell texts: the worksheet stores text.  get_all_records turns a cell    *)
(* whose text is a numeral into a number; the model keeps the text and     *)
(* answers "is it a number / which number" with IsNumeric and Num.         *)
(***************************************************************************)
EXTENDS Integers, Sequences, FiniteSets, TLC

VARIABLES
    config_file,     \* config.json on disk: [exists, content]
    config,          \* self.config
    pc,              \* position of the main thread
    sheet,           \* the worksheet: a sequence of rows of cell texts
    projects_cache,  \* self.projects_cache
    last_update,     \* self.last_update (-1: None)
    call,            \* the main thread's current or last operation and its result
    ops,             \* operations the chat thread has started
    log_file,        \* research_log.json: the stored entries
    log_hist,        \* every entry ever appended to the log, in order (history)
    saves,           \* save_research_log calls made since the process started
    now,             \* wall clock, in hours since the process started
    mon_pc,          \* the monitoring thread: "off", "idle", "checking"
    mon_stage,       \* inside a sweep: "read", "scan"
    next_run,        \* when the scheduled job is next due
    wake,            \* when the monitoring thread's sleep ends
    mon_rows,        \* the records the running sweep has read
    mon_start,       \* when the running sweep started
    sweep_log,       \* one entry per finished sweep: what it read and logged
    emails           \* alert e-mails sent

vars == << config_file, config, pc, sheet, projects_cache, last_update, call, ops,
           log_file, log_hist, saves, now, mon_pc, mon_stage, next_run, wake,
           mon_rows, mon_start, sweep_log, emails >>

mainVars == << pc, sheet, projects_cache, last_update, call, ops >>
logVars  == << log_file, log_hist, saves >>
monVars  == << mon_pc, mon_stage, next_run, wake, mon_rows, mon_start,
               sweep_log, emails >>
cfgVars  == << config_file, config >>

-----------------------------------------------------------------------------
(* Bounds of the model *)

MaxHours == 49     \* the clock stops here
MaxSweep == 1      \* hours a sweep may take
MaxDays  == 1      \* days that pass while the chat thread is followed alone
MaxRows  == 2      \* data rows the worksheet may hold before ajouter stops
MaxOps   == 2      \* operations the chat thread starts in one run
MaxSaves == 2      \* save_research_log calls explored from an initial log

-----------------------------------------------------------------------------
(* Texts *)

Range(s) == { s[i] : i \in 1..Len(s) }

\* The numerals that occur as cell texts, with the number each one reads as.
Numerals ==
    ("0" :> 0) @@ ("1" :> 1) @@ ("2" :> 2) @@ ("3" :> 3) @@ ("4" :> 4) @@
    ("5" :> 5) @@ ("6" :> 6) @@ ("7" :> 7) @@ ("8" :> 8) @@ ("9" :> 9) @@
    ("10" :> 10) @@ ("11" :> 11) @@ ("30" :> 30) @@ ("2025" :> 2025)

IsNumeric(s) == s \in DOMAIN Numerals
Num(s) == Numerals[s]
\* str(n), as the worksheet stores a number that is written to a cell
NumeralOf(n) == CHOOSE s \in DOMAIN Numerals : Numerals[s] = n

\* datetime.now().strftime("%Y-%m-%d") at clock time t
Dates == << "2025-06-01", "2025-06-02", "2025-06-03", "2025-06-04" >>
DateAt(t) == Dates[(t \div 24) + 1]

-----------------------------------------------------------------------------
(* Configuration loader *)

DefaultMonitoring ==
    [ check_interval_hours  |-> 24,
      stagnation_alert_days |-> 7,
      urgent_alert_days     |-> 14 ]

DefaultEmail ==
    [ smtp_server |-> "smtp.gmail.com",
      smtp_port   |-> 587,
      email       |-> "",
      password    |-> "" ]

default_config ==
    [ openrouter_api_key |-> "",
      google_creds_path  |-> "credentials.json",
      sheet_name         |-> "Gestion_Projets",
      email_config       |-> DefaultEmail,
      monitoring         |-> DefaultMonitoring ]

\* (a merge in which the defaults win over the file)
DictUpdateKeepBase(base, other) ==
    [ k \in DOMAIN base \cup DOMAIN other |->
        IF k \in DOMAIN base THEN base[k] ELSE other[k] ]

\* dict.update: every key of `other` is set in `base`, whole value by whole
\* value (a nested record of `other` replaces the nested record of `base`).
DictUpdate(base, other) ==
    [ k \in DOMAIN base \cup DOMAIN other |->
        IF k \in DOMAIN other THEN other[k] ELSE base[k] ]

\* _load_config: the loaded configuration and the file it leaves on disk.
LoadedConfig(file) ==
    IF file.exists THEN DictUpdate(default_config, file.content)
    ELSE default_config

FileAfterLoad(file) ==
    IF file.exists THEN file
    ELSE [ exists |-> TRUE, content |-> default_config ]

NoFile == [ exists |-> FALSE, content |-> << >> ]

\* Sub-records of a record: every restriction of r to a subset of its keys.
Restrict(r, keys) == [ k \in keys |-> r[k] ]

OverrideMonitoring ==
    [ check_interval_hours  |-> 12,
      stagnation_alert_days |-> 10,
      urgent_alert_days     |-> 20 ]

OverrideEmail ==
    [ smtp_server |-> "smtp.example.org",
      smtp_port   |-> 465,
      email       |-> "chef@example.org",
      password    |-> "secret" ]

OverrideTop ==
    [ openrouter_api_key |-> "sk-or-1",
      sheet_name         |-> "Projets_2025" ]

\* The override files explored: any subset of the top-level keys, the two
\* nested records given with any subset of their keys, plus one extra key.
OverrideContents ==
    { DictUpdate(DictUpdate(Restrict(OverrideTop, tk),
                 IF em = {"-"} THEN << >>
                 ELSE [ email_config |-> Restrict(OverrideEmail, em) ]),
                 IF mo = {"-"} THEN << >>
                 ELSE [ monitoring |-> Restrict(OverrideMonitoring, mo) ]) :
        tk \in SUBSET DOMAIN OverrideTop,
        em \in { {"-"}, {}, {"smtp_port"}, DOMAIN OverrideEmail },
        mo \in { {"-"} } \cup SUBSET DOMAIN OverrideMonitoring }

ConfigFiles ==
    { NoFile } \cup { [ exists |-> TRUE, content |-> c ] : c \in OverrideContents }

-----------------------------------------------------------------------------
(* Python string operations, on TLA+ strings *)

Min(a, b) == IF a < b THEN a ELSE b
Max(a, b) == IF a > b THEN a ELSE b

\* s[:n]
Prefix(s, n) == SubSeq(s, 1, Min(n, Len(s)))
\* s[i-1:] (from the i-th character on)
Suffix(s, i) == SubSeq(s, i, Len(s))

UpperChars == "ABCDEFGHIJKLMNOPQRSTUVWXYZÉÀ"
LowerChars == "abcdefghijklmnopqrstuvwxyzéà"

\* each upper-case letter with its lower-case letter
LowerMap ==
    [ c \in { SubSeq(UpperChars, i, i) : i \in 1..Len(UpperChars) } |->
        LET i == CHOOSE j \in 1..Len(UpperChars) : SubSeq(UpperChars, j, j) = c
        IN  SubSeq(LowerChars, i, i) ]

LowerChar(c) == IF c \in DOMAIN LowerMap THEN LowerMap[c] ELSE c

\* str.lower()
RECURSIVE Lower(_)
Lower(s) ==
    IF s = "" THEN ""
    ELSE LowerChar(SubSeq(s, 1, 1)) \o Lower(Suffix(s, 2))

\* w in s
Contains(s, w) ==
    \E i \in 1..(Len(s) - Len(w) + 1) : SubSeq(s, i, i + Len(w) - 1) = w

IsSpace(c) == c \in { " ", "\n", "\t" }

\* str.strip()
RECURSIVE LStrip(_)
LStrip(s) ==
    IF s # "" /\ IsSpace(SubSeq(s, 1, 1)) THEN LStrip(Suffix(s, 2)) ELSE s
RECURSIVE RStrip(_)
RStrip(s) ==
    IF s # "" /\ IsSpace(SubSeq(s, Len(s), Len(s)))
    THEN RStrip(SubSeq(s, 1, Len(s) - 1)) ELSE s
Strip(s) == RStrip(LStrip(s))

\* s.split('\n')
RECURSIVE SplitLines(_)
SplitLines(s) ==
    IF \E i \in 1..Len(s) : SubSeq(s, i, i) = "\n"
    THEN LET i == CHOOSE j \in 1..Len(s) :
                    /\ SubSeq(s, j, j) = "\n"
                    /\ \A k \in 1..(j - 1) : SubSeq(s, k, k) # "\n"
         IN  << SubSeq(s, 1, i - 1) >> \o SplitLines(Suffix(s, i + 1))
    ELSE << s >>

\* n copies of s
RECURSIVE Rep(_, _)
Rep(s, n) ==
    IF n = 0 THEN ""
    ELSE LET half == Rep(s, n \div 2)
         IN  IF n % 2 = 0 THEN half \o half ELSE half \o half \o s

-----------------------------------------------------------------------------
(* Spreadsheet adapter: the worksheet and the calls the code makes on it *)

\* (a header list in which two columns have changed places)
HeadersSwapped ==
    << "Nom_Projet", "Priorité", "Statut", "Description", "Prochaine_Action",
       "Deadline", "Date_Creation", "Dernière_MAJ", "Jours_Stagnation",
       "Alerte", "Progression_%", "Notes" >>

\* setup_sheet_headers: the canonical header list
Headers ==
    << "Nom_Projet", "Statut", "Priorité", "Description", "Prochaine_Action",
       "Deadline", "Date_Creation", "Dernière_MAJ", "Jours_Stagnation",
       "Alerte", "Progression_%", "Notes" >>

\* the 1-based column of a header name
ColOf(keys, k) == CHOOSE i \in 1..Len(keys) : keys[i] = k

\* a row without its trailing empty cells
RECURSIVE TrimRow(_)
TrimRow(row) ==
    IF Len(row) > 0 /\ row[Len(row)] = ""
    THEN TrimRow(SubSeq(row, 1, Len(row) - 1)) ELSE row

\* worksheet.row_values(i)
RowValues(sh, i) == IF i <= Len(sh) THEN TrimRow(sh[i]) ELSE << >>

\* the cell of a row, empty beyond the row's last cell
Cell(row, c) == IF c <= Len(row) THEN row[c] ELSE ""

\* worksheet.clear()
Clear(sh) == << >>

\* worksheet.insert_row(values, 1)
InsertRow(sh, values) == << values >> \o sh

\* (an append that is sent a second time)
AppendRowTwice(sh, values) == Append(Append(sh, values), values)

\* (an append that writes over the last project row)
AppendRowOverLast(sh, values) ==
    IF Len(sh) > 1 THEN [ sh EXCEPT ![Len(sh)] = values ] ELSE Append(sh, values)

\* worksheet.append_row(values): after the last row that holds data
AppendRow(sh, values) == Append(sh, values)

\* worksheet.update_cell(r, c, v)
UpdateCell(sh, r, c, v) ==
    LET rows == IF r <= Len(sh) THEN sh
                ELSE sh \o [ i \in 1..(r - Len(sh)) |-> << >> ]
        old  == rows[r]
        wide == [ i \in 1..Max(c, Len(old)) |-> Cell(old, i) ]
    IN  [ rows EXCEPT ![r] = [ wide EXCEPT ![c] = v ] ]

\* worksheet.get_all_records(): one record per row below row 1, keyed by the
\* texts of row 1.  (Numerals read as numbers: see IsNumeric and Num.)
GetAllRecords(sh) ==
    LET keys == sh[1]
    IN  [ i \in 1..(Len(sh) - 1) |->
            [ k \in Range(keys) |-> Cell(sh[i + 1], ColOf(keys, k)) ] ]

\* get_all_projects: every failure of the read is an empty list (an empty
\* worksheet has no row 1 to take the keys from).
GetAllProjects(sh, ok) ==
    IF ok /\ Len(sh) > 0 THEN GetAllRecords(sh) ELSE << >>

\* project.get(key): the text, or "" standing for None when the key is absent
Get(project, key) == IF key \in DOMAIN project THEN project[key] ELSE ""
Has(project, key) == key \in DOMAIN project

-----------------------------------------------------------------------------
(* Worksheets the process may find when it starts *)

\* (a header row whose first column has another title)
HeadersRenamed == [ Headers EXCEPT ![1] = "Projet" ]
\* (a header row that lacks the last column)
HeadersShort == SubSeq(Headers, 1, 11)
\* (a header row with a thirteenth column)
HeadersLong == Headers \o << "Responsable" >>

RowSite ==
    << "Site web", "En cours", "1", "Refonte", "Valider la maquette",
       "2025-05-30", "2025-05-01", "2025-05-20", "10", "", "40", "client A" >>
RowApp ==
    << "App", "Terminé", "2", "Application mobile", "", "",
       "2025-04-01", "2025-05-01", "30", "", "100", "" >>

DataRowLists == { << >>, << RowSite >>, << RowSite, RowApp >> }

\* Row 1 is canonical, absent, or differs by order, content or length.
HeaderSheets ==
    { << h >> \o rows :
        h \in { Headers, HeadersSwapped, HeadersRenamed, HeadersShort,
                HeadersLong },
        rows \in DataRowLists }
    \cup { << >>, << RowSite >>, << RowSite, RowApp >>,
           << << >>, RowSite >>, << << "", "" >>, RowSite, RowApp >> }

-----------------------------------------------------------------------------
(* Construction: _init_ *)

NoCall == [ op |-> "none" ]

InitProcess ==
    /\ config = << >>
    /\ projects_cache = << >>
    /\ last_update = -1
    /\ call = NoCall
    /\ ops = 0
    /\ saves = 0
    /\ now = 0
    /\ mon_pc = "off"
    /\ mon_stage = "-"
    /\ next_run = 0
    /\ wake = 0
    /\ mon_rows = << >>
    /\ mon_start = 0
    /\ sweep_log = << >>
    /\ emails = 0

InitCommon ==
    /\ InitProcess
    /\ log_file = << >>
    /\ log_hist = << >>

\* self.config = self._load_config(config_path)
LoadConfig ==
    /\ pc = "load_config"
    /\ config' = LoadedConfig(config_file)
    /\ config_file' = FileAfterLoad(config_file)
    /\ pc' = "setup"
    /\ UNCHANGED << sheet, projects_cache, last_update, call, ops, now >>
    /\ UNCHANGED logVars
    /\ UNCHANGED monVars

\* (a test that only notices a row 1 of another length)
HeadersDifferByLength(existing) ==
    existing = << >> \/ Len(existing) # Len(Headers)

\* not existing_headers or existing_headers != headers
HeadersDiffer(existing) == existing = << >> \/ existing # Headers

\* setup_sheet_headers on worksheet sh, the call named `fail` (if any) raising:
\* the worksheet it leaves, the calls made, whether an error was logged.
SetupSheetHeaders(sh, fail) ==
    IF fail = "row_values"
    THEN [ sheet |-> sh, trace |-> << "row_values:error" >>, logged |-> TRUE ]
    ELSE IF ~HeadersDiffer(RowValues(sh, 1))
    THEN [ sheet |-> sh, trace |-> << "row_values" >>, logged |-> FALSE ]
    ELSE IF fail = "clear"
    THEN [ sheet |-> sh, trace |-> << "row_values", "clear:error" >>,
           logged |-> TRUE ]
    ELSE IF fail = "insert_row"
    THEN [ sheet |-> Clear(sh),
           trace |-> << "row_values", "clear", "insert_row:error" >>,
           logged |-> TRUE ]
    ELSE [ sheet |-> InsertRow(Clear(sh), Headers),
           trace |-> << "row_values", "clear", "insert_row" >>,
           logged |-> FALSE ]

\* schedule.every(24).hours.do(monitor_projects), then the thread starts and
\* polls at once.
SweepPeriodHours == 24
PollHours == 1

StartMonitoring ==
    /\ mon_pc' = "idle"
    /\ next_run' = now + SweepPeriodHours
    /\ wake' = now
    /\ UNCHANGED << mon_stage, mon_rows, mon_start, sweep_log, emails >>

\* setup_agents, setup_google_sheets, the cache fields, start_monitoring.
\* A failure to authenticate or to open the sheet is raised again: the
\* construction stops there.
SetupGoogleSheets ==
    /\ pc = "setup"
    /\ \E fail \in { "none", "open", "row_values", "clear", "insert_row" } :
         IF fail = "open"
         THEN /\ pc' = "aborted"
              /\ call' = [ op |-> "setup", pre |-> sheet,
                           trace |-> << "open:error" >>, status |-> "raised",
                           logged |-> TRUE ]
              /\ UNCHANGED << sheet, projects_cache, last_update >>
              /\ UNCHANGED monVars
         ELSE LET r == SetupSheetHeaders(sheet, fail)
              IN  /\ sheet' = r.sheet
                  /\ call' = [ op |-> "setup", pre |-> sheet,
                               trace |-> << "open" >> \o r.trace,
                               status |-> "done", logged |-> r.logged ]
                  /\ pc' = "chat"
                  /\ projects_cache' = << >>
                  /\ last_update' = -1
                  /\ StartMonitoring
    /\ UNCHANGED << ops, now >>
    /\ UNCHANGED cfgVars
    /\ UNCHANGED logVars

-----------------------------------------------------------------------------
(* The configuration loader on its own: any override file *)

InitConfig ==
    /\ InitCommon
    /\ config_file \in ConfigFiles
    /\ pc = "load_config"
    /\ sheet = << >>

NextConfig == LoadConfig

SpecConfig == InitConfig /\ [][NextConfig]_vars

-----------------------------------------------------------------------------
(* Header setup on its own: any worksheet found at start *)

InitHeaders ==
    /\ InitCommon
    /\ config_file = NoFile
    /\ pc = "load_config"
    /\ sheet \in HeaderSheets

NextHeaders == LoadConfig \/ SetupGoogleSheets

SpecHeaders == InitHeaders /\ [][NextHeaders]_vars

-----------------------------------------------------------------------------
(* Completion agents *)

\* generate_reply of the three agents: the replies explored
ResearchReplies ==
    { "## ANALYSE\nProjet clair\n## RECOMMANDATIONS\n  Première action : cadrer le besoin  ",
      "Rien à signaler" }
PlanningReplies == { "## ANALYSE PLANNING\nDélai tenable" }
LongReply == Rep("abcde", 100) \o "f"
WriterReplies == { "## RÉSUMÉ EXÉCUTIF\nTout va bien", LongReply }

-----------------------------------------------------------------------------
(* Research log: save_research_log *)

LogCap == 100
ResultCap == 500

\* (a cut that keeps the oldest entries)
KeepFirst(logs) ==
    IF Len(logs) > LogCap THEN SubSeq(logs, 1, LogCap) ELSE logs

\* if len(logs) > 100: logs = logs[-100:]
KeepLast(logs) ==
    IF Len(logs) > LogCap
    THEN SubSeq(logs, Len(logs) - LogCap + 1, Len(logs)) ELSE logs

\* result[:500] + "..." if len(result) > 500 else result
LogResult(result) ==
    IF Len(result) > ResultCap THEN Prefix(result, ResultCap) \o "..."
    ELSE result

LogEntry(t, query, result, context) ==
    [ timestamp |-> t, query |-> query, context |-> context,
      result |-> LogResult(result) ]

\* save_research_log: the file it leaves.  Any failure inside it (reading,
\* parsing or writing the file) is logged and the file is left as it was.
SaveResearchLog(file, t, query, result, context, ok) ==
    IF ok THEN KeepLast(Append(file, LogEntry(t, query, result, context)))
    ELSE file

\* the entry as given, for the history
GivenEntry(t, query, result, context) ==
    [ timestamp |-> t, query |-> query, context |-> context,
      result |-> result ]

\* (a save_research_log that lets its failure out)
SaveResearchLogRaisesOnFailure(ok) == ~ok

\* save_research_log catches every exception: it never raises to its caller.
SaveResearchLogRaises(ok) == FALSE

LogStep(t, query, result, context, ok) ==
    /\ log_file' = SaveResearchLog(log_file, t, query, result, context, ok)
    /\ log_hist' = IF ok THEN Append(log_hist, GivenEntry(t, query, result, context))
                   ELSE log_hist
    /\ saves' = saves + 1

-----------------------------------------------------------------------------
(* Orchestration layer: rechercher_information *)

PlanningKeywords == << "deadline", "planning", "délai", "échéance" >>

\* (a keyword test on the query as typed)
NeedsPlanningAsTyped(query) ==
    \E i \in 1..Len(PlanningKeywords) : Contains(query, PlanningKeywords[i])

\* any(word in query.lower() for word in [...])
NeedsPlanning(query) ==
    \E i \in 1..Len(PlanningKeywords) :
        Contains(Lower(query), PlanningKeywords[i])

Queries == { "budget marketing", "prochaine ÉCHÉANCE" }

\* NeedsPlanning, computed once for the queries explored
PlanningNeeded == [ q \in Queries |-> NeedsPlanning(q) ]

\* the message given to the research agent (the date without the time)
ResearchPrompt(query, project_context, t) ==
    "Requête de recherche : " \o query \o
    "\nContexte du projet : " \o project_context \o
    "\nDate : " \o DateAt(t) \o
    "\nAnalyse cette requête et fournis une recherche approfondie."

\* the message given to the planning agent
PlanningPrompt(recherche_result) ==
    "Analyse planning pour : " \o recherche_result

\* synthesis_context, the message given to the writer agent
SynthesisPrompt(query, recherche_result, planning_result) ==
    "Recherche effectuée : " \o query \o
    "\nAnalyse de recherche :\n" \o recherche_result \o
    "\nAnalyse planning :\n" \o planning_result \o
    "\nSynthétise cette information pour l'utilisateur."

\* The generate_reply calls of one rechercher_information, in the order they
\* are made: the agent, the message it is given, and its reply unless it
\* raised (`fail` names the stage that raises, if any).
Exchanges(query, t, planned, fail, r1, r2, r3) ==
    LET research ==
            [ agent |-> "research", content |-> ResearchPrompt(query, "", t),
              reply |-> IF fail = "research" THEN "" ELSE r1,
              ok |-> fail # "research" ]
        planning ==
            [ agent |-> "planning", content |-> PlanningPrompt(r1),
              reply |-> IF fail = "planning" THEN "" ELSE r2,
              ok |-> fail # "planning" ]
        writer ==
            [ agent |-> "writer",
              content |-> SynthesisPrompt(query, r1, IF planned THEN r2 ELSE ""),
              reply |-> IF fail = "writer" THEN "" ELSE r3,
              ok |-> fail # "writer" ]
    IN  IF fail = "research" THEN << research >>
        ELSE IF planned /\ fail = "planning" THEN << research, planning >>
        ELSE (IF planned THEN << research, planning >> ELSE << research >>)
             \o << writer >>

SearchError(query, trace, exchanges) ==
    [ op |-> "rechercher_information", query |-> query, trace |-> trace,
      exchanges |-> exchanges,
      status |-> "error", error |-> "Exception", raw_analysis |-> "",
      planning_analysis |-> "", final_synthesis |-> "", log_ok |-> TRUE ]

\* One call of rechercher_information(query, context): `fail` names the agent
\* stage that raises (if any), log_ok whether the log could be written.
RechercherInformation ==
    /\ pc = "chat"
    /\ saves < MaxSaves
    /\ \E query \in Queries, fail \in { "none", "research", "planning", "writer" },
          r1 \in ResearchReplies, r2 \in PlanningReplies, r3 \in WriterReplies :
         LET planned == PlanningNeeded[query]
             staged == IF planned THEN << "research", "planning" >>
                       ELSE << "research" >>
             asked == Exchanges(query, now, planned, fail, r1, r2, r3)
         IN
         /\ fail = "planning" => planned
         /\ IF fail = "research"
            THEN /\ call' = SearchError(query, << "research:error" >>, asked)
                 /\ UNCHANGED logVars
            ELSE IF fail = "planning"
            THEN /\ call' = SearchError(query, << "research", "planning:error" >>,
                                        asked)
                 /\ UNCHANGED logVars
            ELSE IF fail = "writer"
            THEN /\ call' = SearchError(query, staged \o << "writer:error" >>,
                                        asked)
                 /\ UNCHANGED logVars
            ELSE \E log_ok \in BOOLEAN :
                   /\ LogStep(saves, query, r3, "", log_ok)
                   /\ call' =
                        IF SaveResearchLogRaises(log_ok)
                        THEN SearchError(query, staged \o
                               << "writer", "save_research_log:error" >>, asked)
                        ELSE
                        [ op |-> "rechercher_information",
                          query |-> query,
                          trace |-> staged \o << "writer" >> \o
                                    (IF log_ok THEN << "save_research_log" >>
                                     ELSE << "save_research_log:error" >>),
                          exchanges |-> asked,
                          status |-> "success", error |-> "",
                          raw_analysis |-> r1,
                          planning_analysis |-> IF planned THEN r2 ELSE "",
                          final_synthesis |-> r3,
                          log_ok |-> log_ok ]
    /\ UNCHANGED << pc, sheet, projects_cache, last_update, ops, now >>
    /\ UNCHANGED cfgVars
    /\ UNCHANGED monVars

-----------------------------------------------------------------------------
(* Orchestration layer: ajouter_projet *)

DefaultAction == "Analyser les besoins"

\* the first line that holds "action" (any case) and is longer than 10
\* characters, stripped and cut to 100 characters; the default otherwise
ProchaineAction(project_analysis) ==
    LET lines == SplitLines(project_analysis)
        hits  == { i \in 1..Len(lines) :
                     Contains(Lower(lines[i]), "action") /\ Len(lines[i]) > 10 }
    IN  IF Contains(Lower(project_analysis), "action") /\ hits # {}
        THEN Prefix(Strip(lines[CHOOSE i \in hits : \A j \in hits : i <= j]), 100)
        ELSE DefaultAction

\* ProchaineAction, computed once for the replies explored
NextActions == [ a \in ResearchReplies |-> ProchaineAction(a) ]

\* (a row whose status and priority cells have changed places)
RowDataSwapped(nom_projet, description, priorite, deadline, notes, current_date, prochaine_action, project_summary) ==
    << nom_projet, NumeralOf(priorite), "À faire", description,
       prochaine_action, deadline, current_date, current_date, "0", "", "0",
       notes \o "\n\nAnalyse IA : " \o Prefix(project_summary, 200) \o "..." >>

\* row_data
RowData(nom_projet, description, priorite, deadline, notes, current_date, prochaine_action, project_summary) ==
    << nom_projet, "À faire", NumeralOf(priorite), description,
       prochaine_action, IF deadline # "" THEN deadline ELSE "",
       current_date, current_date, "0", "", "0",
       notes \o "\n\nAnalyse IA : " \o Prefix(project_summary, 200) \o "..." >>

\* refresh_projects_cache
RefreshProjectsCache(sh, ok) ==
    /\ projects_cache' = GetAllProjects(sh, ok)
    /\ last_update' = now

\* the arguments explored: name, description, priority, deadline, notes
P(nom, description, priorite, deadline, notes) ==
    [ nom |-> nom, description |-> description, priorite |-> priorite,
      deadline |-> deadline, notes |-> notes ]

ProjectInputs ==
    { P("App", "Application mobile", 1, "2025-12-01", "note"),
      P("2025", "Budget", 3, "", "") }

AddResult(nom, description, priorite, deadline, notes, trace, status, analysis, planning, summary) ==
    [ op |-> "ajouter_projet", nom_projet |-> nom, description |-> description,
      priorite |-> priorite, deadline |-> deadline, notes |-> notes,
      trace |-> trace, status |-> status,
      error |-> IF status = "error" THEN "Exception" ELSE "",
      analysis |-> analysis, planning |-> planning, summary |-> summary ]

\* One call of ajouter_projet with the arguments p: `fail` names the call
\* that raises (if any).
AjouterProjetCall(p) ==
    /\ pc = "chat"
    /\ ops < MaxOps
    /\ ops' = ops + 1
    /\ Len(sheet) <= MaxRows
    /\ \E fail \in { "none", "research", "planning", "writer", "append_row" } :
         LET nom == p.nom
             description == p.description
             priorite == p.priorite
             deadline == p.deadline
             notes == p.notes
             stages == << "research", "planning", "writer", "append_row" >>
             n == IF fail = "none" THEN 5
                  ELSE CHOOSE i \in 1..4 : stages[i] = fail
             trace == [ i \in 1..Min(n, 4) |->
                          IF i = n THEN stages[i] \o ":error" ELSE stages[i] ]
         IN  IF fail # "none"
             THEN /\ call' = AddResult(nom, description, priorite, deadline,
                                       notes, trace, "error", "", "", "")
                  /\ UNCHANGED << sheet, projects_cache, last_update >>
             ELSE \E analysis \in ResearchReplies, planning \in PlanningReplies,
                     summary \in { "## RÉSUMÉ EXÉCUTIF\nTout va bien" },
                     refresh_ok \in BOOLEAN :
                  /\ sheet' = AppendRow(sheet,
                                RowData(nom, description, priorite, deadline,
                                        notes, DateAt(now),
                                        NextActions[analysis], summary))
                  /\ RefreshProjectsCache(sheet', refresh_ok)
                  /\ call' = AddResult(nom, description, priorite, deadline,
                                       notes,
                                       trace \o << IF refresh_ok
                                                   THEN "get_all_records"
                                                   ELSE "get_all_records:error" >>,
                                       "success", analysis, planning, summary)
    /\ UNCHANGED << pc, now >>
    /\ UNCHANGED cfgVars
    /\ UNCHANGED logVars
    /\ UNCHANGED monVars

\* ajouter_projet, for the arguments explored
AjouterProjet == \E p \in ProjectInputs : AjouterProjetCall(p)

-----------------------------------------------------------------------------
(* Orchestration layer: mettre_a_jour_projet, one remote call per step *)

\* (the columns counted from 0)
ColumnsFromZero ==
    [ statut |-> 1, priorite |-> 2, description |-> 3, prochaine_action |-> 4,
      deadline |-> 5, notes |-> 11 ]

\* columns
Columns ==
    [ statut |-> 2, priorite |-> 3, description |-> 4, prochaine_action |-> 5,
      deadline |-> 6, notes |-> 12 ]

LastUpdateColumn == 8

\* project.get('Nom_Projet') == nom_projet: a cell that reads as a number is
\* no string, and equals none
NameMatches(project, nom) ==
    /\ Has(project, "Nom_Projet")
    /\ ~IsNumeric(project["Nom_Projet"])
    /\ project["Nom_Projet"] = nom

\* (a lookup that falls back on the first project)
FindProjectRowOrFirst(projects, nom) ==
    LET hits == { i \in 1..Len(projects) : NameMatches(projects[i], nom) }
    IN  IF hits = {} THEN (IF Len(projects) > 0 THEN 2 ELSE 0)
        ELSE (CHOOSE i \in hits : \A j \in hits : i <= j) + 1

\* for i, project in enumerate(projects, 2): the row of the first match, 0
\* standing for None
FindProjectRow(projects, nom) ==
    LET hits == { i \in 1..Len(projects) : NameMatches(projects[i], nom) }
    IN  IF hits = {} THEN 0
        ELSE (CHOOSE i \in hits : \A j \in hits : i <= j) + 1

LookupNames == { "Site web", "App", "2025" }

F(field, value) == [ field |-> field, value |-> value ]

\* **kwargs, in the order given
KwargsChoices ==
    { << >>,
      << F("statut", "Terminé") >>,
      << F("Statut", "Bloqué"), F("progression", "50"), F("notes", "revu") >> }

MajResult(c, trace, status, error) ==
    [ op |-> "mettre_a_jour_projet", nom_projet |-> c.nom_projet,
      kwargs |-> c.kwargs, row |-> c.row, trace |-> trace, status |-> status,
      error |-> error ]

\* The call starts: the rows are read and the project is looked up.
MajStart ==
    /\ pc = "chat"
    /\ ops < MaxOps
    /\ ops' = ops + 1
    /\ \E nom \in LookupNames, kwargs \in KwargsChoices, read_ok \in BOOLEAN :
         LET projects == GetAllProjects(sheet, read_ok)
             row == FindProjectRow(projects, nom)
             c == [ op |-> "mettre_a_jour_projet", nom_projet |-> nom,
                    kwargs |-> kwargs, row |-> row, pre |-> sheet,
                    pending |-> kwargs,
                    trace |-> << IF read_ok THEN "get_all_records"
                                 ELSE "get_all_records:error" >>,
                    status |-> "running", error |-> "" ]
         IN  IF row = 0
             THEN /\ call' = MajResult(c, c.trace, "error", "Projet non trouvé")
                  /\ pc' = "chat"
             ELSE /\ call' = c
                  /\ pc' = "maj_fields"
    /\ UNCHANGED << sheet, projects_cache, last_update, now >>
    /\ UNCHANGED cfgVars
    /\ UNCHANGED logVars
    /\ UNCHANGED monVars

\* One turn of the loop over kwargs: a recognised field is written to its
\* column, any other is passed over.
MajField ==
    /\ pc = "maj_fields"
    /\ call.pending # << >>
    /\ LET item == Head(call.pending)
           key == Lower(item.field)
       IN  IF key \in DOMAIN Columns
           THEN \E ok \in BOOLEAN :
                  IF ok
                  THEN /\ sheet' = UpdateCell(sheet, call.row, Columns[key],
                                              item.value)
                       /\ call' = [ call EXCEPT
                                      !.pending = Tail(@),
                                      !.trace = Append(@, "update_cell") ]
                       /\ pc' = pc
                  ELSE /\ call' = MajResult(call,
                                    Append(call.trace, "update_cell:error"),
                                    "error", "Exception")
                       /\ pc' = "chat"
                       /\ UNCHANGED sheet
           ELSE /\ call' = [ call EXCEPT !.pending = Tail(@) ]
                /\ UNCHANGED << pc, sheet >>
    /\ UNCHANGED << projects_cache, last_update, ops, now >>
    /\ UNCHANGED cfgVars
    /\ UNCHANGED logVars
    /\ UNCHANGED monVars

\* The last-update date is stamped.
MajStamp ==
    /\ pc = "maj_fields"
    /\ call.pending = << >>
    /\ \E ok \in BOOLEAN :
         IF ok
         THEN /\ sheet' = UpdateCell(sheet, call.row, LastUpdateColumn,
                                     DateAt(now))
              /\ call' = [ call EXCEPT !.trace = Append(@, "update_cell") ]
              /\ pc' = "maj_analyse"
         ELSE /\ call' = MajResult(call, Append(call.trace, "update_cell:error"),
                                   "error", "Exception")
              /\ pc' = "chat"
              /\ UNCHANGED sheet
    /\ UNCHANGED << projects_cache, last_update, ops, now >>
    /\ UNCHANGED cfgVars
    /\ UNCHANGED logVars
    /\ UNCHANGED monVars

\* The writer agent summarises the change, and the call returns.
MajAnalyse ==
    /\ pc = "maj_analyse"
    /\ \E ok \in BOOLEAN :
         call' = IF ok
                 THEN MajResult(call, Append(call.trace, "writer"), "success", "")
                 ELSE MajResult(call, Append(call.trace, "writer:error"),
                                "error", "Exception")
    /\ pc' = "chat"
    /\ UNCHANGED << sheet, projects_cache, last_update, ops, now >>
    /\ UNCHANGED cfgVars
    /\ UNCHANGED logVars
    /\ UNCHANGED monVars

-----------------------------------------------------------------------------
(* The chat thread followed alone *)

\* A day passes while the chat thread waits for input.
DayPasses ==
    /\ pc = "chat"
    /\ now + 24 <= 24 * MaxDays
    /\ now' = now + 24
    /\ UNCHANGED mainVars
    /\ UNCHANGED cfgVars
    /\ UNCHANGED logVars
    /\ UNCHANGED monVars

InitSheets == { << >>, << Headers, RowSite >> }

Init ==
    /\ InitCommon
    /\ config_file = NoFile
    /\ pc = "load_config"
    /\ sheet \in InitSheets

Next ==
    \/ LoadConfig
    \/ SetupGoogleSheets
    \/ AjouterProjet
    \/ MajStart
    \/ MajField
    \/ MajStamp
    \/ MajAnalyse
    \/ DayPasses

Spec == Init /\ [][Next]_vars

-----------------------------------------------------------------------------
(* Searches and the research log followed alone: any log left by earlier runs *)

\* the log an earlier run left after n searches
OldLog(n) ==
    [ i \in 1..n |->
        [ timestamp |-> i - n - 1, query |-> "ancienne recherche",
          context |-> "", result |-> "ancien résultat" ] ]

InitialLogs == { OldLog(0), OldLog(LogCap - 1), OldLog(LogCap) }

InitSearch ==
    /\ InitProcess
    /\ log_file \in InitialLogs
    /\ log_hist = log_file
    /\ config_file = NoFile
    /\ config = << >>
    /\ pc = "chat"
    /\ sheet = << Headers >>

NextSearch == RechercherInformation

SpecSearch == InitSearch /\ [][NextSearch]_vars

-----------------------------------------------------------------------------
(* Periodic monitor: start_monitoring, monitor_projects, run_scheduler *)

\* jours_stagnation > 7
StagnationThreshold == 7

TerminalStatuses == { "Terminé", "Annulé" }

\* project.get('Jours_Stagnation', 0)
JoursStagnation(project) ==
    IF Has(project, "Jours_Stagnation") THEN project["Jours_Stagnation"]
    ELSE "0"

\* the two conditions under which a project is alerted
IsStagnant(project) ==
    /\ Get(project, "Statut") \notin TerminalStatuses
    /\ IsNumeric(JoursStagnation(project))
    /\ Num(JoursStagnation(project)) > StagnationThreshold

\* f"⚠ {project['Nom_Projet']} : {jours_stagnation} jours sans mise à jour"
AlertLine(project) ==
    "⚠ " \o project["Nom_Projet"] \o " : " \o
    NumeralOf(Num(JoursStagnation(project))) \o " jours sans mise à jour"

\* (a sweep that passes over the projects it has alerted before)
ScanProjectsOnce(projects, before) ==
    LET hits == SelectSeq(projects, IsStagnant)
        seen == UNION { Range(before[k].alerts) : k \in 1..Len(before) }
    IN  IF \E i \in 1..Len(hits) : ~Has(hits[i], "Nom_Projet")
        THEN [ failed |-> TRUE, alerts |-> << >> ]
        ELSE LET fresh == SelectSeq(hits, LAMBDA p : AlertLine(p) \notin seen)
             IN  [ failed |-> FALSE,
                   alerts |-> [ i \in 1..Len(fresh) |-> AlertLine(fresh[i]) ] ]

\* The loop of monitor_projects over the rows read: the alert lines, or the
\* failure of the sweep when an alerted row has no Nom_Projet key.  `before`
\* is what earlier sweeps logged: the loop does not look at it.
ScanProjects(projects, before) ==
    LET hits == SelectSeq(projects, IsStagnant)
    IN  IF \E i \in 1..Len(hits) : ~Has(hits[i], "Nom_Projet")
        THEN [ failed |-> TRUE, alerts |-> << >> ]
        ELSE [ failed |-> FALSE,
               alerts |-> [ i \in 1..Len(hits) |-> AlertLine(hits[i]) ] ]

\* the e-mail dispatch is commented out: nothing is sent
EmailsSent(alerts) == 0

\* (a job that is due at every poll)
ShouldRunAlways(t, due) == TRUE

\* schedule: a job runs when the time it is due has come
ShouldRun(t, due) == t >= due

\* The clock advances by one hour.  The monitoring thread polls as soon as
\* its sleep ends; a sweep may take any time.
Tick ==
    /\ mon_pc # "off"
    /\ now < MaxHours
    /\ ~(mon_pc = "idle" /\ now >= wake)
    /\ mon_pc = "checking" => now - mon_start < MaxSweep
    /\ now' = now + 1
    /\ UNCHANGED mainVars
    /\ UNCHANGED cfgVars
    /\ UNCHANGED logVars
    /\ UNCHANGED monVars

\* schedule.run_pending() when the sleep ends, then time.sleep(3600) when no
\* job is due
MonitorPoll ==
    /\ mon_pc = "idle"
    /\ now >= wake
    /\ IF ShouldRun(now, next_run)
       THEN /\ mon_pc' = "checking"
            /\ mon_stage' = "read"
            /\ mon_start' = now
            /\ UNCHANGED wake
       ELSE /\ wake' = now + PollHours
            /\ UNCHANGED << mon_pc, mon_stage, mon_start >>
    /\ UNCHANGED << next_run, mon_rows, sweep_log, emails, now >>
    /\ UNCHANGED mainVars
    /\ UNCHANGED cfgVars
    /\ UNCHANGED logVars

\* (a sweep that waits until no update is under way before it reads)
MonitorReadLocked ==
    /\ pc \notin { "maj_fields", "maj_analyse" }
    /\ mon_pc = "checking"
    /\ mon_stage = "read"
    /\ \E ok \in BOOLEAN : mon_rows' = GetAllProjects(sheet, ok)
    /\ mon_stage' = "scan"
    /\ UNCHANGED << mon_pc, next_run, wake, mon_start, sweep_log, emails, now >>
    /\ UNCHANGED mainVars
    /\ UNCHANGED cfgVars
    /\ UNCHANGED logVars

\* monitor_projects: projects = self.get_all_projects()
MonitorRead ==
    /\ mon_pc = "checking"
    /\ mon_stage = "read"
    /\ \E ok \in BOOLEAN : mon_rows' = GetAllProjects(sheet, ok)
    /\ mon_stage' = "scan"
    /\ UNCHANGED << mon_pc, next_run, wake, mon_start, sweep_log, emails, now >>
    /\ UNCHANGED mainVars
    /\ UNCHANGED cfgVars
    /\ UNCHANGED logVars

\* monitor_projects: the loop and the warning; the job returns, schedule sets
\* the next run 24 hours from now, and the thread sleeps an hour.
MonitorScan ==
    /\ mon_pc = "checking"
    /\ mon_stage = "scan"
    /\ LET r == ScanProjects(mon_rows, sweep_log)
       IN  /\ sweep_log' = Append(sweep_log,
                             [ start |-> mon_start, end |-> now,
                               rows |-> mon_rows, failed |-> r.failed,
                               alerts |-> r.alerts,
                               warnings |-> IF r.alerts # << >> THEN 1 ELSE 0 ])
           /\ emails' = emails + EmailsSent(r.alerts)
    /\ mon_pc' = "idle"
    /\ mon_stage' = "-"
    /\ mon_rows' = << >>
    /\ next_run' = now + SweepPeriodHours
    /\ wake' = now + PollHours
    /\ UNCHANGED << mon_start, now >>
    /\ UNCHANGED mainVars
    /\ UNCHANGED cfgVars
    /\ UNCHANGED logVars

-----------------------------------------------------------------------------
(* The monitoring thread followed alone: any configuration of the            *)
(* thresholds, worksheets with stagnant projects                              *)

RowLimit ==
    << "Intranet", "Bloqué", "2", "Portail", "", "", "2025-05-01",
       "2025-05-25", "7", "", "10", "" >>
RowBlank ==
    << "Veille", "À faire", "4", "Veille techno", "", "", "2025-05-01",
       "2025-05-01", "", "", "0", "" >>
RowCancelled ==
    << "Salon", "Annulé", "3", "Stand", "", "", "2025-03-01",
       "2025-05-21", "11", "", "20", "" >>
RowEight ==
    << "CRM", "En cours", "2", "Migration", "", "", "2025-05-01",
       "2025-05-24", "8", "", "60", "" >>
RowSix ==
    << "Audit", "À faire", "1", "Audit sécurité", "", "", "2025-05-01",
       "2025-05-26", "6", "", "0", "" >>

MonitorSheets ==
    { << Headers, RowSite, RowApp >>,
      << Headers, RowLimit, RowBlank, RowCancelled >>,
      << Headers, RowEight, RowSix >>,
      << HeadersRenamed, RowSite >>,
      << >> }

Thresholds(days) ==
    [ exists |-> TRUE,
      content |-> [ monitoring |-> [ DefaultMonitoring EXCEPT
                                       !.stagnation_alert_days = days ] ] ]

MonitorConfigFiles == { NoFile, Thresholds(10), Thresholds(5) }

InitMonitor ==
    /\ InitCommon
    /\ config_file \in MonitorConfigFiles
    /\ pc = "load_config"
    /\ sheet \in MonitorSheets

NextMonitor ==
    \/ LoadConfig
    \/ SetupGoogleSheets
    \/ Tick
    \/ MonitorPoll
    \/ MonitorRead
    \/ MonitorScan

SpecMonitor == InitMonitor /\ [][NextMonitor]_vars

\* The thread runs a sweep it has started to its end: the calls it waits for
\* return.
SpecMonitorFair ==
    InitMonitor /\ [][NextMonitor]_vars
      /\ WF_vars(MonitorRead) /\ WF_vars(MonitorScan)


-----------------------------------------------------------------------------
(* Properties of mettre_a_jour_projet and ajouter_projet, under Spec *)

\* the rows of a worksheet whose cell under the Nom_Projet title reads nom
RowsNamed(sh, nom) ==
    IF Len(sh) = 0 \/ "Nom_Projet" \notin Range(sh[1]) THEN {}
    ELSE { i \in 2..Len(sh) : Cell(sh[i], ColOf(sh[1], "Nom_Projet")) = nom }

\* a step that starts a call of the operation op
Starts(op) == ops' = ops + 1 /\ call'.op = op

\* C1: a call of mettre_a_jour_projet with a name that no row of the worksheet
\* carries under Nom_Projet returns at once with status "error" and the error
\* text "Projet non trouvé"; it writes no cell: the worksheet is the same
\* after the call, and no update_cell was issued.
C1_NotFoundWritesNothing ==
    [][ (Starts("mettre_a_jour_projet")
           /\ RowsNamed(sheet, call'.nom_projet) = {})
        => /\ call'.status = "error"
           /\ call'.error = "Projet non trouvé"
           /\ pc' = "chat"
           /\ sheet' = sheet
           /\ \A i \in 1..Len(call'.trace) :
                call'.trace[i] \notin { "update_cell", "update_cell:error" } ]_vars

\* a call for an unknown name, with fields to change, on a worksheet that
\* has project rows, has returned
C1_Witness ==
    /\ pc = "chat"
    /\ call.op = "mettre_a_jour_projet"
    /\ call.error = "Projet non trouvé"
    /\ call.kwargs # << >>
    /\ Len(sheet) >= 2
    /\ RowsNamed(sheet, call.nom_projet) = {}

\* the kwargs hold the one field statut
StatutOnly(kwargs) == Len(kwargs) = 1 /\ kwargs[1].field = "statut"

\* C2: while a call of mettre_a_jour_projet whose only field is statut runs
\* on a project that is found, every write leaves all cells as they were when
\* the call started, but for two cells of the first row that carries the name:
\* column 2 (Statut) and column 8 (Dernière_MAJ).  Once the last write is
\* done, column 2 holds the given value and column 8 the date of the call.
C2_StatutUpdateTouchesTwoCells ==
    [][ (pc \in { "maj_fields", "maj_analyse" } /\ StatutOnly(call.kwargs))
        => LET hits == RowsNamed(call.pre, call.nom_projet)
               r == CHOOSE i \in hits : \A j \in hits : i <= j
           IN  /\ hits # {}
               /\ Len(sheet') = Len(call.pre)
               /\ \A i \in 1..Len(sheet') : \A c \in 1..Len(Headers) + 1 :
                    (i # r \/ c \notin { 2, 8 })
                      => Cell(sheet'[i], c) = Cell(call.pre[i], c)
               /\ (pc = "maj_analyse" \/ pc' = "maj_analyse")
                    => /\ Cell(sheet'[r], 2) = call.kwargs[1].value
                       /\ Cell(sheet'[r], 8) = DateAt(now) ]_vars

\* a statut-only update has succeeded, a day after the project was stamped
C2_Witness ==
    /\ pc = "chat"
    /\ call.op = "mettre_a_jour_projet"
    /\ call.status = "success"
    /\ StatutOnly(call.kwargs)
    /\ Cell(sheet[call.row], 2) = "Terminé"
    /\ Cell(sheet[call.row], 8) = DateAt(24)

\* the cell of a row under a canonical title
Under(row, title) == Cell(row, ColOf(Headers, title))

\* C4: a call of ajouter_projet that succeeds appends exactly one row below
\* the rows there were, and changes none of them.  The row has the canonical
\* twelve cells: the name, Statut "À faire", the priority, the description,
\* the deadline given, Date_Creation and Dernière_MAJ both the date of the
\* call, Jours_Stagnation 0, an empty Alerte and Progression_% 0.
C4_AddAppendsCanonicalRow ==
    [][ (Starts("ajouter_projet") /\ call'.status = "success")
        => /\ Len(sheet') = Len(sheet) + 1
           /\ SubSeq(sheet', 1, Len(sheet)) = sheet
           /\ LET row == sheet'[Len(sheet')]
              IN  /\ Len(row) = Len(Headers)
                  /\ Under(row, "Nom_Projet") = call'.nom_projet
                  /\ Under(row, "Statut") = "À faire"
                  /\ Num(Under(row, "Priorité")) = call'.priorite
                  /\ Under(row, "Description") = call'.description
                  /\ Under(row, "Deadline") = call'.deadline
                  /\ Under(row, "Date_Creation") = DateAt(now)
                  /\ Under(row, "Dernière_MAJ") = DateAt(now)
                  /\ Under(row, "Jours_Stagnation") = "0"
                  /\ Under(row, "Alerte") = ""
                  /\ Under(row, "Progression_%") = "0" ]_vars

\* a project was added on the second day below two rows
C4_Witness ==
    /\ call.op = "ajouter_projet"
    /\ call.status = "success"
    /\ now = 24
    /\ Len(sheet) = 3
    /\ sheet[3][1] = call.nom_projet
    /\ sheet[3][7] = DateAt(24)


-----------------------------------------------------------------------------
(* Property of setup_sheet_headers, under SpecHeaders *)

\* C3: when setup_sheet_headers has run, its calls returning normally, on a
\* worksheet whose row 1 was absent or was not the canonical list of twelve
\* titles (other titles, another length, another order), every row there was
\* is gone and the worksheet holds the canonical titles as its only row.
\* Whatever happens, the worksheet is left as found, empty, or holding the
\* canonical titles alone.
C3_HeaderSetupRewrites ==
    (call.op = "setup" /\ call.status = "done")
    => /\ (~call.logged /\ RowValues(call.pre, 1) # Headers)
            => sheet = << Headers >>
       /\ sheet \in { call.pre, << >>, << Headers >> }

\* a worksheet with project rows under titles in another order was rewritten
C3_Witness ==
    /\ call.op = "setup"
    /\ ~call.logged
    /\ Len(call.pre) = 3
    /\ call.pre[1] = HeadersSwapped
    /\ sheet = << Headers >>

-----------------------------------------------------------------------------
(* Properties of _load_config, under SpecConfig *)

NestedKeys == { "email_config", "monitoring" }

\* the value key n of the nested record k should have if the override file o
\* were merged key by key
MergedNested(o, k, n) ==
    IF k \in DOMAIN o /\ n \in DOMAIN o[k] THEN o[k][n]
    ELSE default_config[k][n]

\* C5, as the specification states it: once the configuration is loaded, every
\* key the override file gives, at top level or under email_config or
\* monitoring, has the file's value, and every key it does not give, at top
\* level or under email_config or monitoring, has its default.
C5_MergeKeyByKey ==
    pc # "load_config"
    => LET o == config_file.content
       IN  \A k \in DOMAIN default_config :
             IF k \in NestedKeys
             THEN \A n \in DOMAIN default_config[k] :
                    /\ n \in DOMAIN config[k]
                    /\ config[k][n] = MergedNested(o, k, n)
             ELSE config[k] = IF k \in DOMAIN o THEN o[k] ELSE default_config[k]

\* C5, amended: the merge is made at top level only.  Every top-level key the
\* override file gives has the file's whole value, so that email_config or
\* monitoring, when the file gives it, holds the keys the file lists under it
\* and no other; every top-level key the file does not give has its default.
C5_MergeTopLevel ==
    pc # "load_config"
    => LET o == config_file.content
       IN  /\ DOMAIN config = DOMAIN default_config \cup DOMAIN o
           /\ \A k \in DOMAIN config :
                config[k] = IF k \in DOMAIN o THEN o[k] ELSE default_config[k]
           /\ \A k \in NestedKeys \cap DOMAIN o :
                DOMAIN config[k] = DOMAIN o[k]

\* a file that gives the stagnation threshold alone under monitoring was
\* loaded: the two other monitoring keys are gone
C5_Witness ==
    /\ pc = "setup"
    /\ "monitoring" \in DOMAIN config_file.content
    /\ DOMAIN config_file.content["monitoring"] = { "stagnation_alert_days" }
    /\ config["monitoring"]["stagnation_alert_days"] = 10
    /\ "check_interval_hours" \notin DOMAIN config["monitoring"]
    /\ config["sheet_name"] = "Gestion_Projets"


-----------------------------------------------------------------------------
(* Properties of save_research_log and rechercher_information, under           *)
(* SpecSearch.  log_hist is the sequence of the entries appended, each with   *)
(* its result as it was given.                                                *)

\* the stored text is the given text when that is at most 500 characters
\* long, and its first 500 characters followed by "..." otherwise
StoredFrom(stored, given) ==
    IF Len(given) <= 500 THEN stored = given
    ELSE /\ Len(stored) = 503
         /\ SubSeq(stored, 1, 500) = SubSeq(given, 1, 500)
         /\ SubSeq(stored, 501, 503) = "..."

\* C9: whatever searches were saved, the log file holds at most 100 entries:
\* the last entries appended (all of them while there are at most 100), in the
\* order they were appended, the oldest being the ones dropped.  The stored
\* result of an entry is the result given when that has at most 500
\* characters, and its first 500 characters plus "..." otherwise.
C9_LogKeepsLastHundred ==
    /\ Len(log_file) <= 100
    /\ Len(log_file) = Min(100, Len(log_hist))
    /\ \A i \in 1..Len(log_file) :
         LET e == log_file[i]
             h == log_hist[Len(log_hist) - Len(log_file) + i]
         IN  /\ e.timestamp = h.timestamp
             /\ e.query = h.query
             /\ e.context = h.context
             /\ StoredFrom(e.result, h.result)

\* two searches were saved on a full log, the last with a result of 501
\* characters: the two oldest entries are gone and the result is cut
C9_Witness ==
    /\ Len(log_hist) = 102
    /\ Len(log_file) = 100
    /\ log_file[1].timestamp = log_hist[3].timestamp
    /\ Len(log_hist[102].result) = 501
    /\ Len(log_file[100].result) = 503

AgentErrors == { "research:error", "planning:error", "writer:error" }

\* C10: a call of rechercher_information always returns a result, tagged
\* "success" or "error".  It is tagged "error", with an error text, when one
\* of the agent stages (research, planning, writer) failed; otherwise it is
\* tagged "success" and carries the research reply, the planning reply (empty
\* when the query asks for no planning) and the final synthesis.  In
\* particular a search whose log could not be written is still a success.
C10_SearchReturnsTaggedResult ==
    call.op = "rechercher_information"
    => LET agent_failed == \E i \in 1..Len(call.trace) :
                              call.trace[i] \in AgentErrors
       IN  /\ pc = "chat"
           /\ call.status \in { "success", "error" }
           /\ agent_failed => (call.status = "error" /\ call.error # "")
           /\ ~agent_failed
                => /\ call.status = "success"
                   /\ call.raw_analysis \in ResearchReplies
                   /\ call.final_synthesis \in WriterReplies
                   /\ call.planning_analysis \in
                        (IF PlanningNeeded[call.query] THEN PlanningReplies
                         ELSE { "" })

\* a search with planning succeeded although its log could not be written
C10_Witness ==
    /\ call.op = "rechercher_information"
    /\ call.status = "success"
    /\ call.trace = << "research", "planning", "writer",
                       "save_research_log:error" >>
    /\ call.planning_analysis \in PlanningReplies


-----------------------------------------------------------------------------
(* Properties of the monitoring thread, under SpecMonitor and SpecMonitorFair. *)
(* sweep_log holds one entry per sweep made: when it started and ended, the   *)
(* rows it read, whether it failed, the alert lines and warnings it logged.   *)

\* the rows read that are neither finished nor cancelled and whose
\* Jours_Stagnation is a number above `threshold`
RowsAbove(rows, threshold) ==
    SelectSeq(rows, LAMBDA p :
        /\ Get(p, "Statut") \notin { "Terminé", "Annulé" }
        /\ IsNumeric(Get(p, "Jours_Stagnation"))
        /\ Num(Get(p, "Jours_Stagnation")) > threshold)

\* the line names the project and gives its count of days
LineFor(line, p) ==
    /\ Contains(line, Get(p, "Nom_Projet"))
    /\ Contains(line, Get(p, "Jours_Stagnation") \o " jours")

\* C6, as the specification states it: a sweep that runs to its end logs one
\* alert line, with the project's name and its count of days, for each row
\* read that is neither finished nor cancelled and whose Jours_Stagnation
\* exceeds the threshold of the loaded configuration
\* (monitoring.stagnation_alert_days), no line for any other row, and one
\* warning holding all the lines, or none when there is no line.
C6_SweepUsesConfiguredThreshold ==
    \A k \in 1..Len(sweep_log) :
        LET e == sweep_log[k]
            due == RowsAbove(e.rows, config["monitoring"]["stagnation_alert_days"])
        IN  ~e.failed
            => /\ Len(e.alerts) = Len(due)
               /\ \A i \in 1..Len(due) : LineFor(e.alerts[i], due[i])
               /\ e.warnings = IF Len(due) > 0 THEN 1 ELSE 0

\* the time the previous sweep ended, or the thread started
EndBefore(k) == IF k = 1 THEN 0 ELSE sweep_log[k - 1].end

C7_Cadence ==
    /\ mon_pc \in { "off", "idle", "checking" }
    /\ pc = "chat" => mon_pc \in { "idle", "checking" }
    /\ \A k \in 1..Len(sweep_log) :
         /\ sweep_log[k].start >= EndBefore(k) + 24
         /\ sweep_log[k].start < EndBefore(k) + 24 + 1
         /\ sweep_log[k].start <= sweep_log[k].end
    /\ mon_pc = "checking"
         => /\ mon_start >= EndBefore(Len(sweep_log) + 1) + 24
            /\ mon_start <= now

C7_OneSweep ==
    /\ (mon_pc = "idle" /\ mon_pc' = "checking")
         => /\ now >= EndBefore(Len(sweep_log) + 1) + 24
            /\ now = wake
            /\ sweep_log' = sweep_log
    /\ (mon_pc = "checking" /\ mon_pc' = "idle")
         => /\ Len(sweep_log') = Len(sweep_log) + 1
            /\ SubSeq(sweep_log', 1, Len(sweep_log)) = sweep_log
            /\ sweep_log'[Len(sweep_log')].start = mon_start
    /\ (mon_pc = "checking" /\ mon_pc' = "checking")
         => sweep_log' = sweep_log

\* C7: the monitor is idle or checking.  It leaves idle for checking only at
\* a poll, the polls of an idle monitor being an hour apart, and only when 24
\* hours have passed since the previous sweep ended (since the thread started,
\* for the first sweep).  A visit to checking makes one sweep, and every visit
\* ends in idle, also when the read or the scan of the rows fails.  A sweep
\* starts after the one before it has ended: no two overlap.
C7_MonitorTwoStates ==
    /\ []C7_Cadence
    /\ [][C7_OneSweep]_vars
    /\ (mon_pc = "checking") ~> (mon_pc = "idle")

\* two sweeps were made, the first of which took an hour and failed
C7_Witness ==
    /\ Len(sweep_log) = 2
    /\ sweep_log[1].failed
    /\ sweep_log[1].end > sweep_log[1].start
    /\ sweep_log[2].start >= sweep_log[1].end + 24
    /\ mon_pc = "idle"

\* C8: every sweep that runs to its end logs an alert line for every project
\* it reads that is neither finished nor cancelled and has more than 7 days
\* of stagnation, whether or not earlier sweeps alerted the same project:
\* nothing is remembered from one sweep to the next.  Alerts go to the log in
\* one warning per sweep; no e-mail is ever sent.
C8_AlertRecursEverySweep ==
    /\ emails = 0
    /\ \A k \in 1..Len(sweep_log) :
         LET e == sweep_log[k]
             due == RowsAbove(e.rows, 7)
         IN  /\ e.warnings <= 1
             /\ ~e.failed
                  => \A i \in 1..Len(due) :
                       \E j \in 1..Len(e.alerts) : LineFor(e.alerts[j], due[i])

\* two sweeps in a row alerted the same project, and nothing was sent
C8_Witness ==
    /\ Len(sweep_log) = 2
    /\ sweep_log[1].alerts # << >>
    /\ sweep_log[2].alerts = sweep_log[1].alerts
    /\ sweep_log[2].rows = sweep_log[1].rows
    /\ emails = 0


-----------------------------------------------------------------------------
(* Properties of the project cache and of the rows of the worksheet, under   *)
(* Spec                                                                       *)

\* every read of the rows made by the last call returned
ReadsReturned ==
    \A i \in 1..Len(call.trace) : call.trace[i] # "get_all_records:error"

\* C11, as the specification states it: when ajouter_projet or
\* mettre_a_jour_projet has returned with success, its reads of the worksheet
\* having returned and nothing else having written since, projects_cache
\* holds the data rows the worksheet holds now.
C11_CacheRebuiltAfterMutation ==
    (pc = "chat"
       /\ call.op \in { "ajouter_projet", "mettre_a_jour_projet" }
       /\ call.status = "success"
       /\ ReadsReturned)
    => projects_cache = GetAllProjects(sheet, TRUE)


\* C12, as the specification states it: the worksheets the process starts
\* from holding no name twice, after any calls of ajouter_projet and
\* mettre_a_jour_projet no two data rows under the canonical titles carry the
\* same Nom_Projet.
C12_NamesUnique ==
    (Len(sheet) > 0 /\ sheet[1] = Headers)
    => \A i \in 2..Len(sheet) : \A j \in 2..Len(sheet) :
         i # j => Under(sheet[i], "Nom_Projet") # Under(sheet[j], "Nom_Projet")


-----------------------------------------------------------------------------
(* Query layer: rechercher_projet *)

\* query_lower in project.get(key, '').lower(): a cell that reads as a number
\* has no lower(), and the test raises
FieldTest(project, key, query_lower) ==
    IF IsNumeric(Get(project, key)) THEN "raise"
    ELSE IF Contains(Lower(Get(project, key)), query_lower) THEN "match"
    ELSE "miss"

\* the three tests joined by `or`, left to right: the first that matches or
\* raises decides
RowTest(project, query_lower) ==
    LET name == FieldTest(project, "Nom_Projet", query_lower)
        description == FieldTest(project, "Description", query_lower)
        notes == FieldTest(project, "Notes", query_lower)
    IN  IF name # "miss" THEN name
        ELSE IF description # "miss" THEN description
        ELSE notes

\* rechercher_projet on the rows read: the rows kept, or the exception that
\* leaves the function
RechercherProjet(projects, query) ==
    LET query_lower == Lower(query)
        tests == [ i \in 1..Len(projects) |-> RowTest(projects[i], query_lower) ]
    IN  IF \E i \in 1..Len(projects) : tests[i] = "raise"
        THEN [ raised |-> TRUE, results |-> << >> ]
        ELSE LET kept[i \in 0..Len(projects)] ==
                   IF i = 0 THEN << >>
                   ELSE IF tests[i] = "match" THEN Append(kept[i - 1], projects[i])
                   ELSE kept[i - 1]
             IN  [ raised |-> FALSE, results |-> kept[Len(projects)] ]

\* the texts typed after `projet `
ProjectQueries == { "app", "REFONTE", "Client", "zzz" }


-----------------------------------------------------------------------------
(* Query layer: generer_rapport_quotidien *)

\* datetime.strptime(text, '%Y-%m-%d').date() for the texts that occur as
\* deadlines, as a count of days from the first day of the clock; any other
\* text is no date and raises ValueError
DayNumber ==
    ("2025-05-30" :> (0 - 2)) @@ ("2025-06-01" :> 0) @@ ("2025-6-1" :> 0) @@
    ("2025-06-02" :> 1) @@ ("2025-12-01" :> 183)

IsDate(text) == text \in DOMAIN DayNumber

\* datetime.now().date() at clock time t, counted alike
Today(t) == t \div 24

\* len([p for p in projects if p.get('Statut') == statut])
CountStatus(projects, statut) ==
    Len(SelectSeq(projects, LAMBDA p : Get(p, "Statut") = statut))

\* the mark looked for in the Alerte cell (the siren sign of the source,
\* written here in letters)
UrgentMark == "[urgent]"

\* UrgentMark in p.get('Alerte', ''): a cell that reads as a number is no
\* text to look into, and the test raises
AlertTestRaises(project) == IsNumeric(Get(project, "Alerte"))

\* p.get('Deadline') and p.get('Statut') != 'Terminé': a deadline is given
\* (neither empty nor the number 0) and the project is not finished
HasOpenDeadline(project) ==
    /\ Get(project, "Deadline") \notin { "", "0" }
    /\ Get(project, "Statut") # "Terminé"

\* strptime of a cell that reads as a number raises TypeError, which the
\* inner `except ValueError` does not catch
DeadlineTestRaises(project) ==
    HasOpenDeadline(project) /\ IsNumeric(Get(project, "Deadline"))

IsLate(project, today) ==
    /\ HasOpenDeadline(project)
    /\ IsDate(Get(project, "Deadline"))
    /\ DayNumber[Get(project, "Deadline")] < today

\* p.get('Priorité') == 1 and p.get('Statut') != 'Terminé'
IsCritical(project) ==
    /\ IsNumeric(Get(project, "Priorité"))
    /\ Num(Get(project, "Priorité")) = 1
    /\ Get(project, "Statut") # "Terminé"

ReportError(t) ==
    [ date |-> DateAt(t), status |-> "error", error |-> "Exception" ]

\* generer_rapport_quotidien on the rows read at clock time t; agent_ok tells
\* whether the writer agent replies
GenererRapportQuotidien(projects, t, agent_ok) ==
    IF \/ \E i \in 1..Len(projects) : AlertTestRaises(projects[i])
       \/ \E i \in 1..Len(projects) : DeadlineTestRaises(projects[i])
       \/ ~agent_ok
    THEN ReportError(t)
    ELSE [ date |-> DateAt(t), status |-> "success",
           statistics |->
             [ total    |-> Len(projects),
               en_cours |-> CountStatus(projects, "En cours"),
               a_faire  |-> CountStatus(projects, "À faire"),
               termines |-> CountStatus(projects, "Terminé"),
               bloques  |-> CountStatus(projects, "Bloqué"),
               urgents  |-> Len(SelectSeq(projects, LAMBDA p :
                                  Contains(Get(p, "Alerte"), UrgentMark))) ],
           projets_critiques |-> SelectSeq(projects, IsCritical),
           projets_retard |-> SelectSeq(projects, LAMBDA p : IsLate(p, Today(t))) ]


-----------------------------------------------------------------------------
(* Front end: chat_interface, one command per step.  pc = "chat" is the loop *)
(* waiting at its prompt; the texts printed are given without their          *)
(* pictographs.                                                               *)

\* (a loop that an exception ends)
LoopEndsOnException(status) == IF status = "raised" THEN "quit" ELSE "chat"

\* where the loop stands once a command was handled: its `except Exception`
\* prints, and the `while True` goes on
LoopAfter(status) == "chat"

\* print(f"Erreur : {e}") and print(f"Erreur : {result['error']}")
ErrorLine(error) == "Erreur : " \o error

\* what the loop prints for the result of rechercher_information and of
\* ajouter_projet
ChatPrint(result) ==
    IF result.status # "success" THEN ErrorLine(result.error)
    ELSE IF result.op = "rechercher_information"
    THEN "Résultat :\n" \o result.final_synthesis
    ELSE "Projet ajouté avec succès !"

\* the last text the loop printed
Printed ==
    IF "printed" \in DOMAIN call THEN call.printed
    ELSE IF call.op \in { "rechercher_information", "ajouter_projet" }
    THEN ChatPrint(call)
    ELSE ""

\* str.isdigit(): the decimal digits, and signs such as the superscript two
DigitChars == "0123456789²"
IsDigit(text) ==
    /\ text # ""
    /\ \A i \in 1..Len(text) : Contains(DigitChars, SubSeq(text, i, i))

\* int(priorite) if priorite.isdigit() else 2: int raises on a digit sign
\* that is no decimal digit
ChatPriority(text) ==
    IF ~IsDigit(text) THEN [ raised |-> FALSE, value |-> 2 ]
    ELSE IF IsNumeric(text) THEN [ raised |-> FALSE, value |-> Num(text) ]
    ELSE [ raised |-> TRUE, value |-> 0 ]

\* the answers typed at the five prompts of `ajouter`
T(nom, description, priorite, deadline, notes) ==
    [ nom |-> nom, description |-> description, priorite |-> priorite,
      deadline |-> deadline, notes |-> notes ]

TypedProjects ==
    { T("App", "Application mobile", "1", "2025-12-01", "note"),
      T("2025", "Budget", "haute", "", ""),
      T("Salon", "Stand", "7", "2025", ""),
      T("Veille", "Veille techno", "0", "bientôt", ""),
      T("Audit", "Audit", "²", "", "") }

\* `ajouter`
ChatAjouter ==
    /\ pc = "chat"
    /\ ops + saves < MaxOps
    /\ \E t \in TypedProjects :
      LET priorite == ChatPriority(t.priorite)
      IN  IF priorite.raised
          THEN /\ ops' = ops + 1
               /\ call' = [ op |-> "ajouter", typed |-> t, status |-> "raised",
                            error |-> "ValueError",
                            printed |-> ErrorLine("ValueError") ]
               /\ pc' = LoopAfter("raised")
               /\ UNCHANGED << sheet, projects_cache, last_update, now >>
               /\ UNCHANGED cfgVars
               /\ UNCHANGED logVars
               /\ UNCHANGED monVars
          ELSE AjouterProjetCall(P(t.nom, t.description, priorite.value,
                                   t.deadline, t.notes))


\* what a read-only command leaves unchanged
ChatFrame ==
    /\ UNCHANGED << sheet, projects_cache, last_update, now >>
    /\ UNCHANGED cfgVars
    /\ UNCHANGED logVars
    /\ UNCHANGED monVars

\* a command is read at the prompt: the commands read so far are the
\* searches (counted by saves) and the others (counted by ops)
ChatTurn ==
    /\ pc = "chat"
    /\ ops + saves < MaxOps
    /\ ops' = ops + 1

\* the keys the listing of a found project reads with projet[...]
ListedKeys == { "Nom_Projet", "Statut", "Description" }

\* `projet <text>`: rechercher_projet, then the listing of what it found
ChatProjet ==
    /\ ChatTurn
    /\ \E query \in ProjectQueries, read_ok \in BOOLEAN :
       \E projects \in { GetAllProjects(sheet, read_ok) } :
       \E r \in { RechercherProjet(projects, query) } :
         LET key_error == \E i \in 1..Len(r.results) :
                             ~(ListedKeys \subseteq DOMAIN r.results[i])
             status == IF r.raised \/ key_error THEN "raised" ELSE "success"
         IN  /\ call' = [ op |-> "projet", query |-> query, rows |-> projects,
                          raised |-> r.raised, results |-> r.results,
                          status |-> status,
                          error |-> IF r.raised THEN "AttributeError"
                                    ELSE IF key_error THEN "KeyError" ELSE "",
                          printed |->
                            IF r.raised THEN ErrorLine("AttributeError")
                            ELSE IF key_error THEN ErrorLine("KeyError")
                            ELSE IF r.results = << >>
                            THEN "Aucun projet trouvé pour '" \o query \o "'"
                            ELSE "Projets trouvés" ]
             /\ pc' = LoopAfter(status)
    /\ ChatFrame

\* `rapport`
ChatRapport ==
    /\ ChatTurn
    /\ \E read_ok \in BOOLEAN, agent_ok \in BOOLEAN :
         LET projects == GetAllProjects(sheet, read_ok)
             r == GenererRapportQuotidien(projects, now, agent_ok)
         IN  /\ call' = [ op |-> "rapport", rows |-> projects,
                          agent_ok |-> agent_ok, rapport |-> r,
                          status |-> r.status,
                          error |-> IF r.status = "error" THEN r.error ELSE "",
                          printed |-> IF r.status = "success"
                                      THEN "RAPPORT DU " \o r.date
                                      ELSE ErrorLine(r.error) ]
             /\ pc' = LoopAfter(r.status)
    /\ ChatFrame

\* `projets`: the rows are listed with projet['Statut'], projet['Nom_Projet']
ChatProjets ==
    /\ ChatTurn
    /\ \E read_ok \in BOOLEAN :
         LET projects == GetAllProjects(sheet, read_ok)
             key_error == \E i \in 1..Len(projects) :
                             ~({ "Nom_Projet", "Statut" } \subseteq DOMAIN projects[i])
             status == IF key_error THEN "raised" ELSE "success"
         IN  /\ call' = [ op |-> "projets", rows |-> projects, status |-> status,
                          error |-> IF key_error THEN "KeyError" ELSE "",
                          printed |-> IF key_error THEN ErrorLine("KeyError")
                                      ELSE "Tous les projets" ]
             /\ pc' = LoopAfter(status)
    /\ ChatFrame

\* any other text: the writer agent answers it
ChatLibre ==
    /\ ChatTurn
    /\ \E agent_ok \in BOOLEAN :
         LET status == IF agent_ok THEN "success" ELSE "raised"
         IN  /\ call' = [ op |-> "libre", status |-> status,
                          error |-> IF agent_ok THEN "" ELSE "Exception",
                          printed |-> IF agent_ok THEN "Réponse :"
                                      ELSE ErrorLine("Exception") ]
             /\ pc' = LoopAfter(status)
    /\ ChatFrame

\* `quit`
ChatQuit ==
    /\ pc = "chat"
    /\ call' = [ op |-> "quit", status |-> "success", error |-> "",
                 printed |-> "Au revoir !" ]
    /\ pc' = "quit"
    /\ UNCHANGED ops
    /\ ChatFrame

\* Ctrl-C at the prompt
ChatInterrupt ==
    /\ pc = "chat"
    /\ call' = [ op |-> "interrupt", status |-> "raised",
                 error |-> "KeyboardInterrupt", printed |-> "Au revoir !" ]
    /\ pc' = "quit"
    /\ UNCHANGED ops
    /\ ChatFrame

\* the worksheets the chat is followed from: the two of Init, one with the
\* four statuses and deadlines of every kind, one whose first title differs
RowLate == [ RowLimit EXCEPT ![6] = "2025-06-01" ]
RowVague == [ RowSix EXCEPT ![6] = "bientôt" ]
RowDone == [ RowApp EXCEPT ![6] = "2025-05-30" ]
RowMarked == [ RowBlank EXCEPT ![6] = "2025-12-01", ![10] = UrgentMark ]

ChatSheets ==
    InitSheets \cup
    { << Headers, RowSite, RowLate, RowVague, RowDone, RowMarked >>,
      << HeadersRenamed, RowSite >> }

InitChat ==
    /\ InitCommon
    /\ config_file = NoFile
    /\ pc = "load_config"
    /\ sheet \in ChatSheets

\* `rechercher <text>`
ChatRechercher ==
    /\ ops + saves < MaxOps
    /\ RechercherInformation

NextChat ==
    \/ LoadConfig
    \/ SetupGoogleSheets
    \/ ChatRechercher
    \/ ChatAjouter
    \/ ChatProjet
    \/ ChatRapport
    \/ ChatProjets
    \/ ChatLibre
    \/ ChatQuit
    \/ ChatInterrupt

SpecChat == InitChat /\ [][NextChat]_vars


-----------------------------------------------------------------------------
(* Properties of the chat commands, under SpecChat *)

\* C14, as the specification states it: whatever is typed at the prompts of
\* `ajouter`, every project row under the canonical titles has a Priorité
\* that is a whole number from 1 to 4.
C14_PriorityFromOneToFour ==
    (Len(sheet) > 0 /\ sheet[1] = Headers)
    => \A i \in 2..Len(sheet) :
         /\ IsNumeric(Under(sheet[i], "Priorité"))
         /\ Num(Under(sheet[i], "Priorité")) \in 1..4

\* the query, in lower case, occurs in the lower-cased text of the name, the
\* description or the notes of the row
TextMatches(project, query) ==
    \E key \in { "Nom_Projet", "Description", "Notes" } :
        Contains(Lower(Get(project, key)), Lower(query))

\* C15, as the specification states it: rechercher_projet returns, of the
\* rows it read and in their order, exactly those in which the lower-cased
\* query occurs in the lower-cased Nom_Projet, Description or Notes: all of
\* them, and none when the query occurs in no row.
C15_SearchReturnsMatchingRows ==
    call.op = "projet"
    => /\ ~call.raised
       /\ call.results =
            SelectSeq(call.rows, LAMBDA p : TextMatches(p, call.query))

\* the deadline of the row, as text, is a date before the day of the clock
DeadlineBefore(project, today) ==
    /\ IsDate(Get(project, "Deadline"))
    /\ DayNumber[Get(project, "Deadline")] < today

\* C16, as the specification states it: when the writer agent replies, the
\* daily report is a success for any rows read: a_faire, en_cours, termines
\* and bloques count the rows with exactly the status "À faire", "En cours",
\* "Terminé" and "Bloqué", total counts all rows, and the overdue list holds
\* exactly the rows that are not "Terminé" and whose deadline reads as a date
\* before today, a row whose deadline does not read as a date being passed
\* over without error.
C16_ReportCountsAndOverdue ==
    (call.op = "rapport" /\ call.agent_ok)
    => /\ call.rapport.status = "success"
       /\ LET stats == call.rapport.statistics
              count(statut) ==
                  Cardinality({ i \in 1..Len(call.rows) :
                                  Get(call.rows[i], "Statut") = statut })
          IN  /\ stats.total = Len(call.rows)
              /\ stats.a_faire = count("À faire")
              /\ stats.en_cours = count("En cours")
              /\ stats.termines = count("Terminé")
              /\ stats.bloques = count("Bloqué")
       /\ call.rapport.projets_retard =
            SelectSeq(call.rows, LAMBDA p :
                Get(p, "Statut") # "Terminé" /\ DeadlineBefore(p, now \div 24))

ChatOps ==
    { "rechercher_information", "ajouter_projet", "ajouter", "projet",
      "rapport", "projets", "libre" }

C17_ErrorPrinted ==
    /\ pc \in { "load_config", "setup", "aborted", "chat", "quit" }
    /\ (call.op \in ChatOps /\ call.status \in { "error", "raised" })
         => /\ pc = "chat"
            /\ call.error # ""
            /\ Printed = "Erreur : " \o call.error
    /\ pc = "quit" => call.op \in { "quit", "interrupt" }

C17_LoopLeft ==
    (pc = "chat" /\ pc' # "chat")
    => /\ pc' = "quit"
       /\ call'.op \in { "quit", "interrupt" }

\* C17: when a command of the chat returns an error result or raises, the
\* error text is printed and the loop is back at its prompt; the loop is
\* left only by `quit` or by a keyboard interrupt.
C17_ChatLoopSurvives ==
    /\ []C17_ErrorPrinted
    /\ [][C17_LoopLeft]_vars

\* a second command raised after a first one returned an error result, and
\* the loop waits at its prompt
C17_Witness ==
    /\ pc = "chat"
    /\ ops = 2
    /\ call.op = "projet"
    /\ call.status = "raised"
    /\ Printed = "Erreur : AttributeError"


-----------------------------------------------------------------------------
(* The messaging bot: handle_message, one update at a time *)

MaxUpdates == 2    \* text messages the bot receives in one run

\* the step of range(0, len(contenu), 4000) and the width of each slice
ChunkSize == 4000

\* a text long enough for three slices, each slice of its own letter
LongText ==
    Rep("a", ChunkSize) \o Rep("b", ChunkSize) \o Rep("c", ChunkSize)

\* the contents the agent replies with: empty, one character, and lengths
\* on both sides of one, two and three slices
ReplyLengths ==
    { 0, 1, ChunkSize - 1, ChunkSize, ChunkSize + 1,
      ChunkSize + ChunkSize - 1, ChunkSize + ChunkSize,
      ChunkSize + ChunkSize + 1, Len(LongText) }

BotReplies == { Prefix(LongText, n) : n \in ReplyLengths }

\* contenu[i:i+4000]
Chunk(contenu, i) == SubSeq(contenu, i + 1, Min(i + ChunkSize, Len(contenu)))

GenericFailure == "Erreur lors de la génération."
Welcome == "Bienvenue ! Pose-moi ta question de code."

BotFrame ==
    /\ UNCHANGED << sheet, projects_cache, last_update, now >>
    /\ UNCHANGED cfgVars
    /\ UNCHANGED logVars
    /\ UNCHANGED monVars

\* a text message arrives: handle_message starts and waits for the agents
BotReceive ==
    /\ pc = "bot_idle"
    /\ ops < MaxUpdates
    /\ ops' = ops + 1
    /\ call' = [ op |-> "handle_message", contenu |-> "", i |-> 0,
                 sent |-> << >>, status |-> "running", error |-> "" ]
    /\ pc' = "bot_generating"
    /\ BotFrame

\* the conversation returns or raises; contenu is the content of the last
\* entry of the history, and the loop sends its first slice unless
\* range(0, len(contenu), 4000) is empty
BotGenerated ==
    /\ pc = "bot_generating"
    /\ \E outcome \in { "reply", "raise", "no_history", "no_content" } :
         IF outcome = "reply"
         THEN \E contenu \in BotReplies :
                /\ call' = [ call EXCEPT !.contenu = contenu,
                             !.status = IF Len(contenu) = 0 THEN "done"
                                        ELSE "running" ]
                /\ pc' = IF Len(contenu) = 0 THEN "bot_idle" ELSE "bot_sending"
         ELSE /\ call' = [ call EXCEPT !.error =
                             CASE outcome = "raise" -> "Exception"
                               [] outcome = "no_history" -> "IndexError"
                               [] OTHER -> "TypeError" ]
              /\ pc' = "bot_failing"
    /\ UNCHANGED ops
    /\ BotFrame

\* await update.message.reply_text(contenu[i:i+4000]) returns or raises
BotSent ==
    /\ pc = "bot_sending"
    /\ \E delivered \in BOOLEAN :
         IF delivered
         THEN LET next_i == call.i + ChunkSize
                  more == next_i < Len(call.contenu)
              IN  /\ call' = [ call EXCEPT
                               !.sent = Append(@, Chunk(call.contenu, call.i)),
                               !.i = next_i,
                               !.status = IF more THEN "running" ELSE "done" ]
                  /\ pc' = IF more THEN "bot_sending" ELSE "bot_idle"
         ELSE /\ call' = [ call EXCEPT !.error = "NetworkError" ]
              /\ pc' = "bot_failing"
    /\ UNCHANGED ops
    /\ BotFrame

\* except Exception: await update.message.reply_text(<generic message>),
\* which returns or raises out of the handler
BotFailureSent ==
    /\ pc = "bot_failing"
    /\ \E delivered \in BOOLEAN :
         call' = [ call EXCEPT
                   !.sent = IF delivered THEN Append(@, GenericFailure) ELSE @,
                   !.status = IF delivered THEN "failed" ELSE "raised" ]
    /\ pc' = "bot_idle"
    /\ UNCHANGED ops
    /\ BotFrame

\* /start
BotStart ==
    /\ pc = "bot_idle"
    /\ ops < MaxUpdates
    /\ ops' = ops + 1
    /\ \E delivered \in BOOLEAN :
         call' = [ op |-> "start", contenu |-> "", i |-> 0,
                   sent |-> IF delivered THEN << Welcome >> ELSE << >>,
                   status |-> IF delivered THEN "done" ELSE "raised",
                   error |-> IF delivered THEN "" ELSE "NetworkError" ]
    /\ pc' = "bot_idle"
    /\ BotFrame

InitBot ==
    /\ InitCommon
    /\ config_file = NoFile
    /\ sheet = << >>
    /\ pc = "bot_idle"

NextBot ==
    \/ BotReceive
    \/ BotGenerated
    \/ BotSent
    \/ BotFailureSent
    \/ BotStart

SpecBot == InitBot /\ [][NextBot]_vars

\* the texts of a sequence, one after the other
RECURSIVE Joined(_)
Joined(texts) ==
    IF texts = << >> THEN "" ELSE texts[1] \o Joined(Tail(texts))

\* the messages sent so far are the slices of the reply up to position i
SlicesSent ==
    call.op = "handle_message" /\ call.status \in { "running", "done" }
    => /\ Joined(call.sent) = Prefix(call.contenu, call.i)
       /\ \A k \in 1..Len(call.sent) :
            /\ Len(call.sent[k]) > 0
            /\ Len(call.sent[k]) <= ChunkSize
            /\ k < Len(call.sent) => Len(call.sent[k]) = ChunkSize
       /\ call.status = "done" => Joined(call.sent) = call.contenu

\* C18, as the specification states it: a reply that was generated and sent
\* without failure went out as consecutive non-empty slices of at most 4000
\* characters, all but the last of exactly 4000, that join to the reply; and
\* when generating or sending failed and the failure message went through,
\* the generic failure message is the one message sent.
C18_ChunksOrFailureMessage ==
    /\ SlicesSent
    /\ (call.op = "handle_message" /\ call.status = "failed")
         => call.sent = << GenericFailure >>


-----------------------------------------------------------------------------
(* Order of the agent stages of rechercher_information, under SpecSearch *)

\* one of the four keywords occurs in the query of the call, in lower case
KeywordInQuery ==
    \E word \in { "deadline", "planning", "délai", "échéance" } :
        Contains(Lower(call.query), word)

C20_Stages ==
    call.op = "rechercher_information"
    => LET x == call.exchanges
           n == Len(x)
       IN  /\ n >= 1
           /\ x[1].agent = "research"
           /\ \A i \in 1..(n - 1) : x[i].ok
           /\ x[1].ok =>
                /\ n >= 2
                /\ x[2].agent = "planning" <=> KeywordInQuery
                /\ x[2].agent = "planning" =>
                     /\ Contains(x[2].content, x[1].reply)
                     /\ x[2].ok => n > 2
           /\ \A i \in 2..n :
                /\ x[i].agent \in { "planning", "writer" }
                /\ x[i].agent = "planning" => i = 2
                /\ x[i].agent = "writer" =>
                     /\ i = n
                     /\ Contains(x[i].content, call.query)
                     /\ Contains(x[i].content, x[1].reply)
                     /\ x[2].agent = "planning" =>
                          Contains(x[i].content, x[2].reply)
           /\ call.status = "success" => x[n].agent = "writer" /\ x[n].ok

C20_LogAfterWriter ==
    (log_file' # log_file \/ log_hist' # log_hist)
    => LET x == call'.exchanges
       IN  /\ call'.op = "rechercher_information"
           /\ x[Len(x)].agent = "writer"
           /\ x[Len(x)].ok

\* C20: rechercher_information calls the research agent first, the planning
\* agent next, with the research output, if and only if the lower-cased query
\* contains deadline, planning, délai or échéance, and the writer agent last,
\* with the query and both outputs; each stage is called only once the one
\* before it returned, and the research log changes only in a call whose
\* writer stage returned.
C20_StagesInOrder ==
    /\ []C20_Stages
    /\ [][C20_LogAfterWriter]_vars

\* a search with a keyword went through its three stages and was logged
C20_Witness ==
    /\ call.op = "rechercher_information"
    /\ call.status = "success"
    /\ Len(call.exchanges) = 3
    /\ call.exchanges[2].agent = "planning"
    /\ call.log_ok
    /\ Len(log_hist) > 0
    /\ log_hist[Len(log_hist)].query = call.query


-----------------------------------------------------------------------------
(* The chat thread and the monitoring thread together, at the first sweep *)

MaxTyped == 1    \* commands typed while the two threads are followed together

\* the clock is followed up to the hour the first sweep is due
ThreadsHours == SweepPeriodHours

ThreadsTick ==
    /\ now < ThreadsHours
    /\ Tick

\* the hours at which the user types a command: the hour the first sweep is
\* due, before, while or after the sweep runs (the steps of a command under
\* way and those of the sweep interleave freely)
TypingHours == { SweepPeriodHours }

\* a command is typed
ThreadsTurn ==
    /\ now \in TypingHours
    /\ ops + saves < MaxTyped

ThreadsRechercher == ThreadsTurn /\ ChatRechercher
ThreadsAjouter    == ThreadsTurn /\ AjouterProjet
ThreadsMaj        == ThreadsTurn /\ MajStart
ThreadsProjet     == ThreadsTurn /\ ChatProjet
ThreadsRapport    == ThreadsTurn /\ ChatRapport

InitThreads ==
    /\ InitCommon
    /\ config_file = NoFile
    /\ pc = "load_config"
    /\ sheet \in InitSheets

NextThreads ==
    \/ LoadConfig
    \/ SetupGoogleSheets
    \/ ThreadsRechercher
    \/ ThreadsAjouter
    \/ ThreadsMaj
    \/ MajField
    \/ MajStamp
    \/ MajAnalyse
    \/ ThreadsProjet
    \/ ThreadsRapport
    \/ ThreadsTick
    \/ MonitorPoll
    \/ MonitorRead
    \/ MonitorScan

SpecThreads == InitThreads /\ [][NextThreads]_vars

HeaderInPlace == Len(sheet) > 0 /\ sheet[1] = Headers

C13_RowsKept ==
    HeaderInPlace
    => /\ Len(sheet') >= Len(sheet)
       /\ sheet'[1] = Headers
       /\ \A i \in 2..Len(sheet) : Cell(sheet'[i], 1) = Cell(sheet[i], 1)

\* C13: once the header row is in place, no step of add-project,
\* update-project, search, search-project, the daily report, the cache
\* refresh or the monitoring sweep removes a project row: the worksheet never
\* gets shorter and every row keeps its position and its Nom_Projet.
C13_NoRowDeleted == [][C13_RowsKept]_vars

\* a project was added under the row that was there, which kept its place
\* and its name, and a sweep has run
C13_Witness ==
    /\ HeaderInPlace
    /\ Len(sheet) = 3
    /\ Cell(sheet[2], 1) = "Site web"
    /\ call.op = "ajouter_projet"
    /\ call.status = "success"
    /\ sweep_log # << >>

\* C19: the sweep takes no lock: when it is about to read the worksheet it
\* can do so at once, whatever the position of the chat thread, an update
\* that has written only some of its cells included.
C19_SweepReadsUnlocked ==
    (mon_pc = "checking" /\ mon_stage = "read") => ENABLED MonitorRead

\* the sweep holds the rows it read while a three-field update had written
\* the status of a row, but neither its notes nor its date stamp
C19_Witness ==
    /\ pc = "maj_fields"
    /\ mon_pc = "checking"
    /\ mon_stage = "scan"
    /\ call.op = "mettre_a_jour_projet"
    /\ Len(call.kwargs) = 3
    /\ Len(call.pending) > 0
    /\ Len(mon_rows) >= call.row - 1
    /\ LET read == mon_rows[call.row - 1]
           before == GetAllRecords(call.pre)[call.row - 1]
       IN  /\ Get(read, "Statut") = "Bloqué"
           /\ Get(before, "Statut") # "Bloqué"
           /\ Get(read, "Notes") = Get(before, "Notes")
           /\ Get(read, "Notes") # "revu"
           /\ Get(read, "Dernière_MAJ") = Get(before, "Dernière_MAJ")
           /\ Get(read, "Dernière_MAJ") # DateAt(now)


-----------------------------------------------------------------------------
(* Failures of mettre_a_jour_projet and ajouter_projet, under Spec *)

\* C21, as the specification states it: a call of mettre_a_jour_projet that
\* returns status "error" has written no cell; every call that has written a
\* cell returns status "success".
C21_ErrorWritesNothing ==
    (call.op = "mettre_a_jour_projet" /\ call.status = "error")
    => \A i \in 1..Len(call.trace) : call.trace[i] # "update_cell"

C22_AllOrNothing ==
    Starts("ajouter_projet")
    => LET agent_failed == \E i \in 1..Len(call'.trace) :
                              call'.trace[i] \in AgentErrors
       IN  /\ call'.status \in { "success", "error" }
           /\ agent_failed =>
                /\ call'.status = "error"
                /\ sheet' = sheet
           /\ call'.status = "success" =>
                /\ ~agent_failed
                /\ Len(sheet') = Len(sheet) + 1
                /\ SubSeq(sheet', 1, Len(sheet)) = sheet

\* C22: a call of ajouter_projet in which the research, the planning or the
\* writer agent fails returns status "error" and leaves the worksheet as it
\* was; a call that returns status "success" has added exactly one row, under
\* the rows that were there.
C22_AddAllOrNothing == [][C22_AllOrNothing]_vars

\* after a first project was added, a second call failed at the writer agent
\* and the worksheet still ends with the first project
C22_Witness ==
    /\ ops = 2
    /\ call.op = "ajouter_projet"
    /\ call.status = "error"
    /\ call.trace[Len(call.trace)] = "writer:error"
    /\ Len(sheet) = 2
    /\ sheet[1] = Headers
    /\ sheet[2][1] # call.nom_projet

=============================================================================
